---- MODULE Spec2Model ----
(***************************************************************************)
(* Model of skills/web-search/scripts/web_search.py: the text extractor,  *)
(* the page fetcher, the search provider, the search-and-fetch            *)
(* orchestrator and the command-line entry point.                          *)
(*                                                                         *)
(* Python strings whose characters matter (URLs, HTML, extracted text)    *)
(* are sequences of one-character strings; Python dicts are records whose *)
(* DOMAIN is the set of keys present; None is the value None.             *)
(***************************************************************************)
EXTENDS Integers, Sequences, FiniteSets, TLC

\* ------------------------------------------------------------------ bounds
MaxHtmlLen == 4     \* longest HTML input (in tokens) given to the extractor
MaxLenArg  == 2     \* largest max_length argument
MaxK       == 2     \* most results the search engine returns
MaxTopN    == 2     \* largest top_n argument
MaxSummary == 3     \* longest paper summary
MaxPapers  == 2     \* most papers the arXiv client returns
MaxIds     == 2     \* most ids in --paper-ids

\* ------------------------------------------------------- string helpers
None == "None"

Min(a, b) == IF a < b THEN a ELSE b

\* Python s[:n] for n >= 0
Take(s, n) == SubSeq(s, 1, Min(n, Len(s)))

\* Python s[n:] for n >= 0
Drop(s, n) == SubSeq(s, n + 1, Len(s))

\* Python str.startswith(p)
StartsWith(s, p) == Len(s) >= Len(p) /\ SubSeq(s, 1, Len(p)) = p

IsSpace(c) == c \in {" ", "\n"}

RECURSIVE LStrip(_)
LStrip(s) == IF s # <<>> /\ IsSpace(Head(s)) THEN LStrip(Tail(s)) ELSE s

RECURSIVE RStrip(_)
RStrip(s) ==
    IF s # <<>> /\ IsSpace(s[Len(s)]) THEN RStrip(SubSeq(s, 1, Len(s) - 1)) ELSE s

\* Python str.strip()
Strip(s) == LStrip(RStrip(s))

\* Python str.split(sep) for a one-character separator: a sequence of strings
RECURSIVE SplitOn(_, _, _)
SplitOn(s, sep, cur) ==
    IF s = <<>> THEN <<cur>>
    ELSE IF Head(s) = sep THEN <<cur>> \o SplitOn(Tail(s), sep, <<>>)
    ELSE SplitOn(Tail(s), sep, Append(cur, Head(s)))

\* Python line.split("  "): left-to-right, non-overlapping double spaces
RECURSIVE SplitDouble(_, _)
SplitDouble(s, cur) ==
    IF s = <<>> THEN <<cur>>
    ELSE IF StartsWith(s, <<" ", " ">>) THEN <<cur>> \o SplitDouble(Drop(s, 2), <<>>)
    ELSE SplitDouble(Tail(s), Append(cur, Head(s)))

\* Python '\n'.join(parts)
RECURSIVE JoinNL(_)
JoinNL(parts) ==
    IF parts = <<>> THEN <<>>
    ELSE IF Len(parts) = 1 THEN parts[1]
    ELSE parts[1] \o <<"\n">> \o JoinNL(Tail(parts))

\* flatten a sequence of sequences
RECURSIVE Flatten(_)
Flatten(ss) == IF ss = <<>> THEN <<>> ELSE Head(ss) \o Flatten(Tail(ss))

\* the elements of a sequence that are not the empty string
RECURSIVE NonEmpty(_)
NonEmpty(ss) ==
    IF ss = <<>> THEN <<>>
    ELSE IF Head(ss) = <<>> THEN NonEmpty(Tail(ss))
    ELSE <<Head(ss)>> \o NonEmpty(Tail(ss))

\* ------------------------------------------------------- text extractor
\* An HTML document is a sequence of tokens: text characters, a tag that
\* carries no text of its own ("<p>"), and the tags of an excluded element.
TextChars  == {"a", " ", "\n"}
TagTokens  == {"<p>", "<script>", "</script>"}
HtmlTokens == TextChars \cup TagTokens

\* the literal appended on truncation
Marker ==
    <<"\n", "\n", "[", "C", "o", "n", "t", "e", "n", "t", " ", "t", "r", "u",
      "n", "c", "a", "t", "e", "d", ".", ".", ".", "]">>

\* soup = BeautifulSoup(html); decompose the excluded elements; soup.get_text():
\* the text outside tags, without the contents of excluded elements (an
\* unclosed excluded element swallows the rest, a stray end tag is dropped)
RECURSIVE SoupGetText(_, _)
SoupGetText(html, inExcluded) ==
    IF html = <<>> THEN <<>>
    ELSE IF Head(html) = "<script>" THEN SoupGetText(Tail(html), TRUE)
    ELSE IF Head(html) = "</script>" THEN SoupGetText(Tail(html), FALSE)
    ELSE IF Head(html) = "<p>" \/ inExcluded THEN SoupGetText(Tail(html), inExcluded)
    ELSE <<Head(html)>> \o SoupGetText(Tail(html), inExcluded)

\* line 59: line.strip() for each line
StripAll(parts) == [i \in 1..Len(parts) |-> Strip(parts[i])]

\* line 60: phrase.strip() for each phrase of line.split("  ")
SplitPhrases(line) == StripAll(SplitDouble(line, <<>>))

\* lines 59-61: strip each line, split on double spaces, strip, drop empties, join
CleanParsed(text) ==
    LET lines  == StripAll(SplitOn(text, "\n", <<>>))
        chunks == Flatten([i \in 1..Len(lines) |-> SplitPhrases(lines[i])])
    IN  JoinNL(NonEmpty(chunks))

\* re.sub(r'<[^>]+>', '', html)
RECURSIVE StripTags(_)
StripTags(html) ==
    IF html = <<>> THEN <<>>
    ELSE IF Head(html) \in TagTokens THEN StripTags(Tail(html))
    ELSE <<Head(html)>> \o StripTags(Tail(html))

\* re.sub(r'\s+', ' ', text)
RECURSIVE CollapseWs(_)
CollapseWs(s) ==
    IF s = <<>> THEN <<>>
    ELSE IF IsSpace(Head(s))
         THEN <<" ">> \o CollapseWs(LStrip(s))
         ELSE <<Head(s)>> \o CollapseWs(Tail(s))

\* lines 74-76
CleanFallback(html) == Strip(CollapseWs(StripTags(html)))

\* the length test admitting a text of exactly max_length characters
Truncate_AtLimit(text, max_length) ==
    IF Len(text) >= max_length THEN Take(text, max_length) \o Marker ELSE text

\* lines 64-65 and 78-79
Truncate(text, max_length) ==
    IF Len(text) > max_length THEN Take(text, max_length) \o Marker ELSE text

\* the text before the length limit, by path
CleanedText(html, parser) ==
    IF parser = "ok" THEN CleanParsed(SoupGetText(html, FALSE)) ELSE CleanFallback(html)

\* extract_text_from_html: parser is the state of the bs4 import
\* ("ok", "missing": ImportError, "rejects": the parser raises on the markup)
extract_text_from_html(html, max_length, parser) ==
    IF parser = "rejects"
    THEN [raised |-> TRUE, exc_type |-> "ParserRejectedMarkup"]
    ELSE [raised |-> FALSE, text |-> Truncate(CleanedText(html, parser), max_length)]


\* ------------------------------------------------------------ data values
\* a variable that has not been assigned yet
Unset == [unset |-> TRUE]

\* dict.get(key, default)
Get(d, key, default) == IF key \in DOMAIN d THEN d[key] ELSE default

HttpsA == <<"h", "t", "t", "p", "s", ":", "/", "/", "a">>
HttpB  == <<"h", "t", "t", "p", ":", "/", "/", "b">>
FtpC   == <<"f", "t", "p", ":", "/", "/", "c">>
NoLink == <<"N", "o", " ", "l", "i", "n", "k">>

\* values of --fetch-url
UrlArgs == {HttpsA, HttpB, FtpC}

\* what the search engine can return for one hit (a hit may lack its href)
RawHits ==
    { [title |-> "A", body |-> "sa", href |-> HttpsA],
      [title |-> "C", body |-> "sc", href |-> FtpC],
      [title |-> "N", body |-> "sn"] }

\* sequences over S of length at most n
SeqUpTo(S, n) == UNION {[1..k -> S] : k \in 0..n}

\* pages a server can answer with: the body, the text of its first <title>
\* element (None without one), and whether the HTML parser raises on it
Pages ==
    { [body |-> <<"a">>, title_tag |-> "T", rejected |-> FALSE],
      [body |-> <<"<script>", "a", "</script>", "a", " ", "a">>,
       title_tag |-> None, rejected |-> FALSE],
      [body |-> <<"<p>">>, title_tag |-> None, rejected |-> TRUE] }

\* what client.get / raise_for_status can do once the request is sent
Responses ==
    { [kind |-> "ok", status_code |-> 200, content_type |-> "text/html", page |-> p] :
        p \in Pages }
    \cup
    { [kind |-> "raise",
       exc |-> [exc_type |-> "HTTPStatusError", module |-> <<"httpx">>,
                status_code |-> 404, reason_phrase |-> "Not Found",
                msg |-> "Client error '404 Not Found'"]],
      [kind |-> "raise",
       exc |-> [exc_type |-> "HTTPStatusError", module |-> <<"httpx">>,
                status_code |-> 500, reason_phrase |-> "Internal Server Error",
                msg |-> "Server error '500 Internal Server Error'"]],
      [kind |-> "raise",
       exc |-> [exc_type |-> "ReadTimeout", module |-> <<"httpx">>, msg |-> ""]],
      [kind |-> "raise",
       exc |-> [exc_type |-> "ConnectError", module |-> <<"httpx">>,
                msg |-> "All connection attempts failed"]] }

\* no request was sent
NoResponse == [kind |-> "none"]

\* isinstance(e, httpx.HTTPStatusError), isinstance(e, httpx.TimeoutException)
HTTPStatusErrorClasses == {"HTTPStatusError"}
TimeoutExceptionClasses ==
    {"TimeoutException", "ConnectTimeout", "ReadTimeout", "WriteTimeout", "PoolTimeout"}

\* "httpx" in str(type(e).__module__), on the components of the module path
ModuleNamesHttpx(module) == \E i \in 1..Len(module) : module[i] = "httpx"

\* --------------------------------------------------------- page fetcher
\* lines 104-109
invalid_url_result(url) ==
    [success |-> FALSE, error |-> "URL must start with http:// or https://", url |-> url]

\* lines 177-181
generic_error_result(e, url) ==
    [success |-> FALSE, error |-> e.exc_type \o ": " \o e.msg, url |-> url]

\* the except clause without the httpx branch
fetch_except_Unclassified(e, url) == generic_error_result(e, url)

\* the except clause of fetch_url_content, lines 156-181
fetch_except(e, url) ==
    IF ModuleNamesHttpx(e.module) /\ e.exc_type \in HTTPStatusErrorClasses
    THEN [success |-> FALSE,
          error |-> "HTTP error " \o ToString(e.status_code) \o ": " \o e.reason_phrase,
          url |-> url,
          status_code |-> e.status_code]
    ELSE IF ModuleNamesHttpx(e.module) /\ e.exc_type \in TimeoutExceptionClasses
    THEN [success |-> FALSE, error |-> "Request timed out (30 seconds)", url |-> url]
    ELSE generic_error_result(e, url)

\* lines 125-133: the first <title>, else the placeholder; failures are swallowed
extract_title(page, bs4_ok) ==
    IF bs4_ok /\ ~page.rejected /\ page.title_tag # None THEN page.title_tag ELSE "No title"

ParserState(page, bs4_ok) ==
    IF ~bs4_ok THEN "missing" ELSE IF page.rejected THEN "rejects" ELSE "ok"

\* lines 138-154
fetch_success_result(url, resp, text, include_html, max_length, bs4_ok) ==
    LET base == [success |-> TRUE,
                 url |-> url,
                 title |-> extract_title(resp.page, bs4_ok),
                 content_type |-> resp.content_type,
                 text_content |-> text,
                 text_length |-> Len(text),
                 status_code |-> resp.status_code]
    IN  IF include_html
        THEN [k \in DOMAIN base \cup {"html_content"} |->
                IF k = "html_content" THEN Take(resp.page.body, max_length) ELSE base[k]]
        ELSE base

\* fetch_url_content after the request was sent, lines 117-181
fetch_after_get(url, resp, include_html, max_length, bs4_ok) ==
    IF resp.kind = "raise" THEN fetch_except(resp.exc, url)
    ELSE LET ex == extract_text_from_html(resp.page.body, max_length,
                                          ParserState(resp.page, bs4_ok))
         IN  IF ex.raised
             THEN fetch_except([exc_type |-> ex.exc_type, module |-> <<"bs4", "exceptions">>,
                                msg |-> "The markup you provided was rejected by the parser"],
                               url)
             ELSE fetch_success_result(url, resp, ex.text, include_html, max_length, bs4_ok)

\* fetch_url_content up to the request, lines 100-109: Unset when the request
\* is to be sent, else the value returned without a request
fetch_before_get(url, httpx_ok) ==
    IF ~httpx_ok
    THEN fetch_except([exc_type |-> "ModuleNotFoundError", module |-> <<"builtins">>,
                       msg |-> "No module named 'httpx'"], url)
    ELSE IF ~(StartsWith(url, <<"h", "t", "t", "p", ":", "/", "/">>)
              \/ StartsWith(url, <<"h", "t", "t", "p", "s", ":", "/", "/">>))
    THEN invalid_url_result(url)
    ELSE Unset

\* ------------------------------------------------------- search provider
MaxResultsCap == 10

\* lines 207-214
format_results(hits) ==
    [i \in 1..Len(hits) |->
        [index   |-> i,
         title   |-> Get(hits[i], "title", "No title"),
         snippet |-> Get(hits[i], "body", "No snippet"),
         link    |-> Get(hits[i], "href", NoLink)]]

\* lines 218-223
search_success(query, hits) ==
    [success |-> TRUE,
     query |-> query,
     result_count |-> Len(format_results(hits)),
     results |-> format_results(hits)]

\* lines 225-232
search_import_error(query) ==
    [success |-> FALSE,
     error |-> "ddgs library not installed. Please install it with: pip install ddgs",
     query |-> query]

\* lines 234-240
search_exception(query, msg) == [success |-> FALSE, error |-> msg, query |-> query]

\* what DDGS(), ddgs.text and the formatting loop can raise
SearchErrors ==
    { [exc_type |-> "DDGSException", stage |-> "construct",
       msg |-> "No results found."],
      [exc_type |-> "RatelimitException", stage |-> "query", msg |-> "202 Ratelimit"],
      [exc_type |-> "AttributeError", stage |-> "format",
       msg |-> "'str' object has no attribute 'get'"] }

\* what `from ddgs import DDGS` raises without the library
DdgsImportError ==
    [exc_type |-> "ModuleNotFoundError", stage |-> "import",
     msg |-> "No module named 'ddgs'"]

\* the classes `except ImportError` catches
ImportErrorClasses == {"ImportError", "ModuleNotFoundError"}

\* ddg_web_search without the ImportError clause
ddg_web_search_NoImportClause(query, ev) ==
    IF ev.kind = "raise" THEN search_exception(query, ev.exc.msg)
    ELSE search_success(query, ev.hits)

\* ddg_web_search, lines 195-240, for what the import and the client did
ddg_web_search(query, ev) ==
    IF ev.kind = "raise" /\ ev.exc.exc_type \in ImportErrorClasses
    THEN search_import_error(query)
    ELSE IF ev.kind = "raise" THEN search_exception(query, ev.exc.msg)
    ELSE search_success(query, ev.hits)

\* --------------------------------------------------------- orchestrator
\* the slice taking one result too many
select_urls_OneMore(results, top_n) ==
    [i \in 1..Len(Take(results, top_n + 1)) |-> results[i].link]

\* the links of a sequence of results, each link once
RECURSIVE DistinctLinks(_, _)
DistinctLinks(results, seen) ==
    IF results = <<>> THEN <<>>
    ELSE IF Head(results).link \in seen THEN DistinctLinks(Tail(results), seen)
    ELSE <<Head(results).link>>
         \o DistinctLinks(Tail(results), seen \cup {Head(results).link})

\* the selection that drops repeated links
select_urls_Dedup(results, top_n) == DistinctLinks(Take(results, top_n), {})

\* line 269
select_urls(results, top_n) == [i \in 1..Len(Take(results, top_n)) |-> results[i].link]

\* the entry with a hard-wired success flag
fetched_entry_AlwaysSuccess(idx, url, content) ==
    [index         |-> idx,
     url           |-> url,
     title         |-> Get(content, "title", "No title"),
     text_content  |-> Get(content, "text_content", <<>>),
     text_length   |-> Get(content, "text_length", 0),
     fetch_success |-> TRUE,
     error         |-> Get(content, "error", None)]

\* lines 277-285
fetched_entry(idx, url, content) ==
    [index         |-> idx,
     url           |-> url,
     title         |-> Get(content, "title", "No title"),
     text_content  |-> Get(content, "text_content", <<>>),
     text_length   |-> Get(content, "text_length", 0),
     fetch_success |-> Get(content, "success", FALSE),
     error         |-> Get(content, "error", None)]

\* the report whose success flag follows the fetches
retrieval_report_AllOrNothing(query, sr, fc) ==
    [success |-> \A i \in 1..Len(fc) : fc[i].fetch_success,
     query |-> query,
     search_results |-> sr,
     fetched_content |-> fc,
     total_results |-> Len(Get(sr, "results", <<>>)),
     fetched_count |-> Len(fc)]

\* lines 287-294
retrieval_report(query, sr, fc) ==
    [success |-> TRUE,
     query |-> query,
     search_results |-> sr,
     fetched_content |-> fc,
     total_results |-> Len(Get(sr, "results", <<>>)),
     fetched_count |-> Len(fc)]


\* ------------------------------------------------------------------ state
VARIABLES
    modules,          \* which of httpx, bs4, ddgs can be imported
    args,             \* the parsed command line
    pc,               \* position of main()
    search_results,   \* search_and_fetch: value of ddg_web_search
    search_event,     \* what the import of ddgs and the search client did
    urls_to_fetch,    \* search_and_fetch: the selected links
    fetched_content,  \* search_and_fetch: the entries appended so far
    outcomes,         \* every return of fetch_url_content: url, response, value
    fetch_calls,      \* the urls fetch_url_content was called with, in order
    network_calls,    \* the urls a GET was sent for, in order
    inflight,         \* positions whose GET is sent and not yet answered
    peak_inflight,    \* the most positions in flight at once so far
    result,           \* main: the value to print
    stdout,           \* the JSON objects written to standard output
    exit_code,        \* the process exit status, -1 while running
    interrupted,      \* a KeyboardInterrupt was delivered
    ex_pc,            \* extractor driver: position
    ex_html,          \* extractor driver: html argument
    ex_max_length,    \* extractor driver: max_length argument
    ex_parser,        \* extractor driver: state of the HTML parser
    ex_out,           \* extractor driver: value of extract_text_from_html
    ax_pc,            \* arxiv_get_paper driver: position
    ax_ids,           \* arxiv_get_paper: the comma-separated parts of paper_ids
    ax_max_length,    \* arxiv_get_paper: max_length argument
    ax_event,         \* arxiv_get_paper: what the import and the client did
    ax_out            \* arxiv_get_paper: the returned value

mainVars ==
    <<modules, args, pc, search_results, search_event, urls_to_fetch, fetched_content, outcomes,
      fetch_calls, network_calls, inflight, peak_inflight, result, stdout,
      exit_code, interrupted>>

exVars == <<ex_pc, ex_html, ex_max_length, ex_parser, ex_out>>

axVars == <<ax_pc, ax_ids, ax_max_length, ax_event, ax_out>>

vars == <<mainVars, exVars, axVars>>

\* argparse defaults, lines 324, 342, 355
DefaultMaxResults == 5
DefaultMaxLength  == 50000
DefaultTopN       == 3

\* an option that was not given is falsy, like an empty one (lines 369-377)
NoQuery == ""
NoUrl   == <<>>

DefaultArgs ==
    [query |-> NoQuery, fetch_url |-> NoUrl, fetch_content |-> FALSE,
     include_html |-> FALSE, max_results |-> DefaultMaxResults,
     top_n |-> DefaultTopN, max_length |-> DefaultMaxLength]

FetchArgs ==
    { [DefaultArgs EXCEPT !.fetch_url = u, !.include_html = h, !.max_length = l] :
        u \in UrlArgs, h \in BOOLEAN, l \in 1..MaxLenArg }

SearchArgs ==
    { [DefaultArgs EXCEPT !.query = "q", !.max_results = m] : m \in {1, DefaultMaxResults} }

SearchFetchArgs ==
    { [DefaultArgs EXCEPT !.query = "q", !.fetch_content = TRUE, !.max_results = m,
                          !.top_n = n, !.max_length = l] :
        m \in {1, DefaultMaxResults}, n \in 1..MaxTopN, l \in 1..MaxLenArg }

RejectedArgs ==
    { DefaultArgs, [DefaultArgs EXCEPT !.query = "q", !.fetch_url = HttpsA] }

ArgsSet == FetchArgs \cup SearchArgs \cup SearchFetchArgs \cup RejectedArgs

ModulesSet == [httpx : BOOLEAN, bs4 : BOOLEAN, ddgs : BOOLEAN]

ExIdle ==
    /\ ex_pc = "idle"
    /\ ex_html = <<>>
    /\ ex_max_length = 1
    /\ ex_parser = "ok"
    /\ ex_out = Unset

AxIdle ==
    /\ ax_pc = "idle"
    /\ ax_ids = <<>>
    /\ ax_max_length = 1
    /\ ax_event = Unset
    /\ ax_out = Unset

MainStart ==
    /\ search_results = Unset
    /\ search_event = Unset
    /\ urls_to_fetch = <<>>
    /\ fetched_content = <<>>
    /\ outcomes = <<>>
    /\ fetch_calls = <<>>
    /\ network_calls = <<>>
    /\ inflight = {}
    /\ peak_inflight = 0
    /\ result = Unset
    /\ stdout = <<>>
    /\ exit_code = -1
    /\ interrupted = FALSE

\* main() at line 366, after parse_args
Init ==
    /\ modules \in ModulesSet
    /\ args \in ArgsSet
    /\ pc = "start"
    /\ MainStart
    /\ ExIdle
    /\ AxIdle

\* ------------------------------------------------------------ main, modes
IsFetchMode == args.fetch_url # NoUrl

\* the position and url of the fetch in progress
CurIdx == IF IsFetchMode THEN 1 ELSE Len(fetched_content) + 1
CurUrl == IF IsFetchMode THEN args.fetch_url ELSE urls_to_fetch[CurIdx]

\* lines 369-373: parser.error exits with status 2 and prints usage to stderr
Validate ==
    /\ pc = "start"
    /\ IF (args.query = NoQuery /\ args.fetch_url = NoUrl)
          \/ (args.query # NoQuery /\ args.fetch_url # NoUrl)
       THEN /\ pc' = "exited"
            /\ exit_code' = 2
       ELSE /\ pc' = "dispatch"
            /\ UNCHANGED exit_code
    /\ UNCHANGED <<modules, args, search_results, search_event, urls_to_fetch, fetched_content,
                   outcomes, fetch_calls, network_calls, inflight, peak_inflight,
                   result, stdout, interrupted, exVars, axVars>>

\* lines 376-394: choose the mode
Dispatch ==
    /\ pc = "dispatch"
    /\ pc' = IF IsFetchMode THEN "fetch_call" ELSE "search_call"
    /\ UNCHANGED <<modules, args, search_results, search_event, urls_to_fetch, fetched_content,
                   outcomes, fetch_calls, network_calls, inflight, peak_inflight,
                   result, stdout, exit_code, interrupted, exVars, axVars>>

\* what the import of ddgs and the search client can do in one call
SearchEvents ==
    IF ~modules.ddgs
    THEN {[kind |-> "raise", exc |-> DdgsImportError]}
    ELSE { [kind |-> "raise", exc |-> e] : e \in SearchErrors }
         \cup
         { [kind |-> "hits", hits |-> hits] :
             hits \in SeqUpTo(RawHits, Min(Min(args.max_results, MaxResultsCap), MaxK)) }

\* the values ddg_web_search can return, lines 195-240
SearchValues == { ddg_web_search(args.query, ev) : ev \in SearchEvents }

\* ddg_web_search, called from main (line 394) or search_and_fetch (line 262)
DdgWebSearch ==
    /\ pc = "search_call"
    /\ \E ev \in SearchEvents :
         /\ search_event' = ev
         /\ search_results' = ddg_web_search(args.query, ev)
         /\ IF args.fetch_content
            THEN pc' = "saf_check" /\ UNCHANGED result
            ELSE pc' = "output" /\ result' = ddg_web_search(args.query, ev)
    /\ UNCHANGED <<modules, args, urls_to_fetch, fetched_content, outcomes,
                   fetch_calls, network_calls, inflight, peak_inflight, stdout,
                   exit_code, interrupted, exVars, axVars>>

\* search_and_fetch without the test of line 264
SafCheck_NoShortCircuit ==
    /\ pc = "saf_check"
    /\ urls_to_fetch' = select_urls(Get(search_results, "results", <<>>), args.top_n)
    /\ fetched_content' = <<>>
    /\ pc' = "saf_loop"
    /\ UNCHANGED <<modules, args, search_results, search_event, outcomes, fetch_calls,
                   network_calls,
                   inflight, peak_inflight, result, stdout, exit_code, interrupted,
                   exVars, axVars>>

\* search_and_fetch, lines 264-272
SafCheck ==
    /\ pc = "saf_check"
    /\ IF ~Get(search_results, "success", FALSE)
       THEN /\ result' = search_results
            /\ pc' = "output"
            /\ UNCHANGED <<urls_to_fetch, fetched_content>>
       ELSE /\ urls_to_fetch' = select_urls(Get(search_results, "results", <<>>), args.top_n)
            /\ fetched_content' = <<>>
            /\ pc' = "saf_loop"
            /\ UNCHANGED result
    /\ UNCHANGED <<modules, args, search_results, search_event, outcomes, fetch_calls,
                   network_calls,
                   inflight, peak_inflight, stdout, exit_code, interrupted, exVars, axVars>>

\* search_and_fetch, the loop head (line 273) and the return (lines 287-294)
SafLoop ==
    /\ pc = "saf_loop"
    /\ IF Len(fetched_content) < Len(urls_to_fetch)
       THEN /\ pc' = "fetch_call"
            /\ UNCHANGED result
       ELSE /\ result' = retrieval_report(args.query, search_results, fetched_content)
            /\ pc' = "output"
    /\ UNCHANGED <<modules, args, search_results, search_event, urls_to_fetch, fetched_content,
                   outcomes, fetch_calls, network_calls, inflight, peak_inflight,
                   stdout, exit_code, interrupted, exVars, axVars>>

\* line 117: the request of position idx is sent and awaited
request_sent(infl, idx) == infl \cup {idx}

\* a request left in flight after its answer arrived
request_answered_Leaked(infl, idx) == infl

\* lines 117 and 275: the awaited request of position idx is answered before
\* the caller goes on
request_answered(infl, idx) == infl \ {idx}

\* the value of fetch_url_content reaches its caller: main (line 379) or the
\* loop body of search_and_fetch (lines 275-285)
Deliver(content, resp) ==
    /\ outcomes' = Append(outcomes, [url |-> CurUrl, resp |-> resp, content |-> content])
    /\ IF IsFetchMode
       THEN /\ result' = content
            /\ pc' = "output"
            /\ UNCHANGED fetched_content
       ELSE /\ fetched_content' = Append(fetched_content, fetched_entry(CurIdx, CurUrl, content))
            /\ pc' = "saf_loop"
            /\ UNCHANGED result

\* fetch_url_content up to the await of client.get, lines 100-117
FetchBegin ==
    /\ pc = "fetch_call"
    /\ fetch_calls' = Append(fetch_calls, CurUrl)
    /\ LET early == fetch_before_get(CurUrl, modules.httpx)
       IN  IF early = Unset
           THEN /\ network_calls' = Append(network_calls, CurUrl)
                /\ inflight' = request_sent(inflight, CurIdx)
                /\ peak_inflight' =
                     IF Cardinality(request_sent(inflight, CurIdx)) > peak_inflight
                     THEN Cardinality(request_sent(inflight, CurIdx)) ELSE peak_inflight
                /\ pc' = "awaiting"
                /\ UNCHANGED <<outcomes, fetched_content, result>>
           ELSE /\ Deliver(early, NoResponse)
                /\ UNCHANGED <<network_calls, inflight, peak_inflight>>
    /\ UNCHANGED <<modules, args, search_results, search_event, urls_to_fetch, stdout, exit_code,
                   interrupted, exVars, axVars>>

\* fetch_url_content from the answer of client.get to its return, lines 117-181
FetchRespond ==
    /\ pc = "awaiting"
    /\ \E resp \in Responses :
         Deliver(fetch_after_get(CurUrl, resp, args.include_html, args.max_length,
                                 modules.bs4), resp)
    /\ inflight' = request_answered(inflight, CurIdx)
    /\ UNCHANGED <<modules, args, search_results, search_event, urls_to_fetch, fetch_calls,
                   network_calls, peak_inflight, stdout, exit_code, interrupted, exVars, axVars>>

\* lines 397-398: print(json.dumps(result))
Output ==
    /\ pc = "output"
    /\ stdout' = Append(stdout, result)
    /\ pc' = "printed"
    /\ UNCHANGED <<modules, args, search_results, search_event, urls_to_fetch, fetched_content,
                   outcomes, fetch_calls, network_calls, inflight, peak_inflight,
                   result, exit_code, interrupted, exVars, axVars>>

\* the exit status that ignores the result
exit_status_AlwaysZero(r) == 0

\* line 401
exit_status(r) == IF Get(r, "success", FALSE) THEN 0 ELSE 1

Exit ==
    /\ pc = "printed"
    /\ exit_code' = exit_status(result)
    /\ pc' = "exited"
    /\ UNCHANGED <<modules, args, search_results, search_event, urls_to_fetch, fetched_content,
                   outcomes, fetch_calls, network_calls, inflight, peak_inflight,
                   result, stdout, interrupted, exVars, axVars>>

\* positions of main inside the try block, lines 376-401
TryPcs ==
    {"dispatch", "search_call", "saf_check", "saf_loop", "fetch_call", "awaiting",
     "output", "printed"}

\* lines 403-405: KeyboardInterrupt anywhere in the try block
Interrupt ==
    /\ pc \in TryPcs
    /\ interrupted' = TRUE
    /\ inflight' = {}
    /\ exit_code' = 130
    /\ pc' = "exited"
    /\ UNCHANGED <<modules, args, search_results, search_event, urls_to_fetch, fetched_content,
                   outcomes, fetch_calls, network_calls, peak_inflight, result,
                   stdout, exVars, axVars>>

\* lines 406-413: an exception the modes did not convert (asyncio.run refusing
\* to start, json.dumps rejecting the value), raised before anything is written
UnexpectedMessages == {"asyncio.run() cannot be called from a running event loop",
                       "Object of type bytes is not JSON serializable"}

\* an error object without the success field
error_result_NoSuccess(m) == [error |-> m]

\* lines 408-411
error_result(m) == [success |-> FALSE, error |-> m]

Unexpected ==
    /\ pc \in {"dispatch", "output"}
    /\ \E m \in UnexpectedMessages : stdout' = Append(stdout, error_result(m))
    /\ exit_code' = 1
    /\ pc' = "exited"
    /\ UNCHANGED <<modules, args, search_results, search_event, urls_to_fetch, fetched_content,
                   outcomes, fetch_calls, network_calls, inflight, peak_inflight,
                   result, interrupted, exVars, axVars>>

Next ==
    \/ Validate
    \/ Dispatch
    \/ DdgWebSearch
    \/ SafCheck
    \/ SafLoop
    \/ FetchBegin
    \/ FetchRespond
    \/ Output
    \/ Exit
    \/ Interrupt
    \/ Unexpected

Spec == Init /\ [][Next]_vars


\* ------------------------------------------------ extractor driver
\* extract_text_from_html applied to every bounded input
InitExtract ==
    /\ modules = [httpx |-> TRUE, bs4 |-> TRUE, ddgs |-> TRUE]
    /\ args = DefaultArgs
    /\ pc = "idle"
    /\ MainStart
    /\ ex_pc = "call"
    /\ ex_html \in SeqUpTo(HtmlTokens, MaxHtmlLen)
    /\ ex_max_length \in 1..MaxLenArg
    /\ ex_parser \in {"ok", "missing", "rejects"}
    /\ ex_out = Unset
    /\ AxIdle

ExtractCall(parser) ==
    /\ ex_pc = "call"
    /\ ex_parser = parser
    /\ ex_out' = extract_text_from_html(ex_html, ex_max_length, ex_parser)
    /\ ex_pc' = IF extract_text_from_html(ex_html, ex_max_length, ex_parser).raised
                THEN "raised" ELSE "returned"
    /\ UNCHANGED <<mainVars, ex_html, ex_max_length, ex_parser, axVars>>

\* lines 46-67: the parser path
ExtractParsed == ExtractCall("ok")

\* lines 69-81: the regex path after ImportError
ExtractFallback == ExtractCall("missing")

\* lines 49-56 raising something other than ImportError
ExtractRaises == ExtractCall("rejects")

NextExtract ==
    \/ ExtractParsed
    \/ ExtractFallback
    \/ ExtractRaises

SpecExtract == InitExtract /\ [][NextExtract]_vars


\* ------------------------------------------------ arxiv_get_paper
\* the literal arxiv_get_paper appends on truncation, line 98
ArxivMarker ==
    <<"\n", "\n", "[", ".", ".", ".", " ", "C", "o", "n", "t", "e", "n", "t", " ",
      "t", "r", "u", "n", "c", "a", "t", "e", "d", "]">>

\* argparse default of --max-length, line 150
ArxivDefaultMaxLength == 5000

\* Python s.split("/")[-1] on the components of s
LastComponent(parts) == parts[Len(parts)]

\* one comma-separated part of --paper-ids, as its "/"-separated components
IdArgs == {<<"1">>, <<"abs", "2">>}

\* strings of n characters, n up to the bound
Summaries == UNION {[1..k -> {"a"}] : k \in 0..MaxSummary}

\* papers the arXiv client can yield
ArxivPapers ==
    { [entry_id |-> <<"http:", "", "arxiv.org", "abs", id>>,
       summary |-> sm,
       title |-> "T" \o id,
       authors |-> <<"A", "B">>,
       published |-> [year |-> 2023, month |-> 1, day |-> 30],
       pdf_url |-> "https://arxiv.org/pdf/" \o id,
       categories |-> <<"cs.CL">>] : id \in {"1", "2"}, sm \in Summaries }

\* ", ".join(names)
RECURSIVE JoinComma(_)
JoinComma(names) ==
    IF names = <<>> THEN ""
    ELSE IF Len(names) = 1 THEN names[1]
    ELSE names[1] \o ", " \o JoinComma(Tail(names))

TwoDigits(n) == IF n < 10 THEN "0" \o ToString(n) ELSE ToString(n)

\* published.strftime("%Y-%m-%d")
FormatDate(d) == ToString(d.year) \o "-" \o TwoDigits(d.month) \o "-" \o TwoDigits(d.day)

\* lines 96-98: the local variable content
arxiv_content(summary, max_length) ==
    IF Len(summary) > max_length THEN Take(summary, max_length) \o ArxivMarker ELSE summary

\* lines 100-109: the dict appended for a found paper; content is not used
arxiv_paper_entry(paper, content) ==
    [paper_id   |-> LastComponent(paper.entry_id),
     title      |-> paper.title,
     authors    |-> JoinComma(paper.authors),
     published  |-> FormatDate(paper.published),
     abstract   |-> paper.summary,
     pdf_url    |-> paper.pdf_url,
     categories |-> paper.categories,
     url        |-> "https://arxiv.org/abs/" \o LastComponent(paper.entry_id)]

\* line 88
arxiv_id_list(id_args) == [i \in 1..Len(id_args) |-> LastComponent(id_args[i])]

\* lines 93-109
arxiv_found(papers, max_length) ==
    [i \in 1..Len(papers) |->
        arxiv_paper_entry(papers[i], arxiv_content(papers[i].summary, max_length))]

\* lines 112-115: an entry for every requested id that was not found
RECURSIVE arxiv_missing(_, _)
arxiv_missing(id_list, found_ids) ==
    IF id_list = <<>> THEN <<>>
    ELSE IF Head(id_list) \in found_ids THEN arxiv_missing(Tail(id_list), found_ids)
    ELSE <<[paper_id |-> Head(id_list), error |-> "Paper not found: " \o Head(id_list)]>>
         \o arxiv_missing(Tail(id_list), found_ids)

\* arxiv_get_paper, lines 83-127
arxiv_get_paper(id_args, max_length, ev) ==
    IF ev.kind = "raise"
    THEN [success |-> FALSE, error |-> ev.msg, paper_ids |-> id_args]
    ELSE LET found == arxiv_found(ev.papers, max_length)
             found_ids == {found[i].paper_id : i \in 1..Len(found)}
             papers == found \o arxiv_missing(arxiv_id_list(id_args), found_ids)
         IN  [success |-> TRUE, papers_retrieved |-> Len(papers), papers |-> papers]

\* what `import arxiv` and client.results can do: raise, or yield papers
\* among the requested ids
ArxivEvents(id_args) ==
    { [kind |-> "raise", msg |-> m] :
        m \in {"No module named 'arxiv'", "Page request resulted in HTTP 429"} }
    \cup
    { [kind |-> "papers", papers |-> ps] :
        ps \in { q \in SeqUpTo(ArxivPapers, MaxPapers) :
                   \A i \in 1..Len(q) :
                      \E j \in 1..Len(id_args) :
                         LastComponent(q[i].entry_id) = LastComponent(id_args[j]) } }

InitArxiv ==
    /\ modules = [httpx |-> TRUE, bs4 |-> TRUE, ddgs |-> TRUE]
    /\ args = DefaultArgs
    /\ pc = "idle"
    /\ MainStart
    /\ ExIdle
    /\ ax_pc = "call"
    /\ ax_ids \in SeqUpTo(IdArgs, MaxIds) \ {<<>>}
    /\ ax_max_length \in (1..MaxLenArg) \cup {ArxivDefaultMaxLength}
    /\ ax_event = Unset
    /\ ax_out = Unset

ArxivCall(kind) ==
    /\ ax_pc = "call"
    /\ \E ev \in ArxivEvents(ax_ids) :
         /\ ev.kind = kind
         /\ ax_event' = ev
         /\ ax_out' = arxiv_get_paper(ax_ids, ax_max_length, ev)
    /\ ax_pc' = "returned"
    /\ UNCHANGED <<mainVars, exVars, ax_ids, ax_max_length>>

\* lines 85-123
ArxivGetPaper == ArxivCall("papers")

\* lines 125-127
ArxivGetPaperFails == ArxivCall("raise")

NextArxiv ==
    \/ ArxivGetPaper
    \/ ArxivGetPaperFails

SpecArxiv == InitArxiv /\ [][NextArxiv]_vars

\* ------------------------------------------------------------ vocabulary
\* the command line selects a mode (it passes lines 369-373)
ModeRuns ==
    ~ \/ (args.query = NoQuery /\ args.fetch_url = NoUrl)
      \/ (args.query # NoQuery /\ args.fetch_url # NoUrl)

IsSafMode == ModeRuns /\ ~IsFetchMode /\ args.fetch_content

\* search_and_fetch has returned
SafReturned == IsSafMode /\ result # Unset

SearchSucceeded == search_results # Unset /\ search_results.success

SearchFailed == search_results # Unset /\ ~search_results.success

IsReport(r) == "fetched_content" \in DOMAIN r

ValidScheme(url) ==
    \/ StartsWith(url, <<"h", "t", "t", "p", ":", "/", "/">>)
    \/ StartsWith(url, <<"h", "t", "t", "p", "s", ":", "/", "/">>)

\* the error kind a failure value carries
ErrorKind(c) ==
    IF c.error = "URL must start with http:// or https://" THEN "InvalidURL"
    ELSE IF "status_code" \in DOMAIN c THEN "HttpStatus"
    ELSE IF c.error = "Request timed out (30 seconds)" THEN "Timeout"
    ELSE "Other"

\* ------------------------------------------------------------------- C1
\* C1: when the search succeeded with K results and top_n is positive, the
\* report of search_and_fetch has fetched_count = length of fetched_content
\* = min(top_n, K), and the i-th entry carries the link of the i-th result.
C1_SelectionOrder ==
    (SafReturned /\ SearchSucceeded /\ args.top_n > 0) =>
        LET K == Len(result.search_results.results)
            n == IF args.top_n < K THEN args.top_n ELSE K
        IN  /\ IsReport(result)
            /\ result.fetched_count = n
            /\ Len(result.fetched_content) = n
            /\ \A i \in 1..n :
                 result.fetched_content[i].url = result.search_results.results[i].link

\* a report over two results with different links, both fetched
C1_Witness ==
    /\ SafReturned
    /\ IsReport(result)
    /\ result.fetched_count = 2
    /\ result.fetched_content[1].url # result.fetched_content[2].url

\* a report where top_n cut the result list
C1_WitnessCut ==
    /\ SafReturned
    /\ IsReport(result)
    /\ result.fetched_count = 1
    /\ result.total_results = 2

\* ------------------------------------------------------------------- C2
\* C2: when the search succeeded, search_and_fetch returns success = TRUE
\* with one entry per selected url, every selected url was fetched, and the
\* entry of a failed fetch has fetch_success = FALSE and that fetch's error.
C2_PartialFailure ==
    (SafReturned /\ SearchSucceeded) =>
        /\ IsReport(result)
        /\ result.success = TRUE
        /\ Len(result.fetched_content) = Len(urls_to_fetch)
        /\ fetch_calls = urls_to_fetch
        /\ Len(outcomes) = Len(urls_to_fetch)
        /\ \A i \in 1..Len(urls_to_fetch) :
             ~outcomes[i].content.success =>
                /\ result.fetched_content[i].fetch_success = FALSE
                /\ result.fetched_content[i].error = outcomes[i].content.error

\* a report whose first fetch failed and whose second succeeded
C2_Witness ==
    /\ SafReturned
    /\ IsReport(result)
    /\ Len(result.fetched_content) = 2
    /\ ~result.fetched_content[1].fetch_success
    /\ result.fetched_content[2].fetch_success

\* ------------------------------------------------------------------- C3
\* C3: when the search failed, search_and_fetch starts no fetch and returns
\* the search provider's failure value itself.
C3_SearchFailureFatal ==
    (IsSafMode /\ SearchFailed) =>
        /\ fetch_calls = <<>>
        /\ network_calls = <<>>
        /\ pc \in {"output", "printed"} =>
             /\ result = search_results
             /\ result.success = FALSE
             /\ result.query = args.query
        /\ pc = "printed" => stdout = <<search_results>>

\* the failure of a search with the client present, printed by the combined mode
C3_Witness ==
    /\ IsSafMode
    /\ SearchFailed
    /\ modules.ddgs
    /\ pc = "printed"
    /\ stdout = <<search_results>>

C5_InvalidUrl ==
    /\ \A i \in 1..Len(outcomes) :
         ~ValidScheme(outcomes[i].url) =>
            /\ outcomes[i].content.success = FALSE
            /\ ErrorKind(outcomes[i].content) = "InvalidURL"
            /\ outcomes[i].resp = NoResponse
    /\ \A i \in 1..Len(network_calls) : ValidScheme(network_calls[i])

\* ------------------------------------------------------------------- C6
FailureOf(o) ==
    IF o.resp.kind = "raise" THEN o.resp.exc
    ELSE IF o.resp.kind = "ok" /\ modules.bs4 /\ o.resp.page.rejected
    THEN [exc_type |-> "ParserRejectedMarkup",
          msg |-> "The markup you provided was rejected by the parser"]
    ELSE Unset

\* C6: a fetch whose request failed returns a failure value: kind HttpStatus
\* with the response's status code for an HTTP error status, kind Timeout
\* without status code for a timeout, kind Other without status code and
\* with a message naming the exception class for anything else; every call
\* of fetch_url_content returns a value.
C6_Classification ==
    /\ \A i \in 1..Len(outcomes) :
         LET c == outcomes[i].content
             e == FailureOf(outcomes[i])
         IN  e # Unset =>
               /\ c.success = FALSE
               /\ IF e.exc_type = "HTTPStatusError"
                  THEN /\ ErrorKind(c) = "HttpStatus"
                       /\ c.status_code = e.status_code
                  ELSE IF e.exc_type \in {"ReadTimeout", "ConnectTimeout"}
                  THEN /\ ErrorKind(c) = "Timeout"
                       /\ "status_code" \notin DOMAIN c
                  ELSE /\ ErrorKind(c) = "Other"
                       /\ "status_code" \notin DOMAIN c
                       /\ c.error = e.exc_type \o ": " \o e.msg
    /\ (pc \notin {"fetch_call", "awaiting"} /\ ~interrupted) =>
         Len(outcomes) = Len(fetch_calls)

\* one run with an HTTP error status and a timeout
C6_Witness ==
    /\ Len(outcomes) = 2
    /\ outcomes[1].resp.kind = "raise"
    /\ outcomes[1].resp.exc.exc_type = "HTTPStatusError"
    /\ outcomes[2].resp.kind = "raise"
    /\ outcomes[2].resp.exc.exc_type = "ReadTimeout"

\* a request that failed with an exception that is neither of the two
C6_WitnessOther ==
    /\ Len(outcomes) = 1
    /\ outcomes[1].resp.kind = "raise"
    /\ outcomes[1].resp.exc.exc_type = "ConnectError"

\* ------------------------------------------------------------------- C7
\* a value of fetch_url_content: text and no error, or error and no text
OutcomeWellFormed(c) ==
    \/ c.success /\ "text_content" \in DOMAIN c /\ "error" \notin DOMAIN c
    \/ ~c.success /\ "error" \in DOMAIN c /\ "text_content" \notin DOMAIN c

\* an entry of fetched_content carries a text (a string, were it empty)
EntryHasText(e) == "text_content" \in DOMAIN e

EntryHasError(e) == "error" \in DOMAIN e /\ e.error # None

\* C7 as stated: every value of fetch_url_content and every entry of
\* fetched_content has either success with a text and no error, or failure
\* with an error and no text.
C7_ExactlyOne ==
    /\ \A i \in 1..Len(outcomes) : OutcomeWellFormed(outcomes[i].content)
    /\ \A i \in 1..Len(fetched_content) :
         LET e == fetched_content[i]
         IN  \/ e.fetch_success /\ EntryHasText(e) /\ ~EntryHasError(e)
             \/ ~e.fetch_success /\ EntryHasError(e) /\ ~EntryHasText(e)

\* C7 amended: every value of fetch_url_content has either success with a
\* text and no error, or failure with an error and no text; every entry of
\* fetched_content has either fetch_success with the fetched text and no
\* error, or no fetch_success with the fetch's error and, in place of a text,
\* the empty string with text_length 0.
C7_Amended ==
    /\ \A i \in 1..Len(outcomes) : OutcomeWellFormed(outcomes[i].content)
    /\ \A i \in 1..Len(fetched_content) :
         LET e == fetched_content[i]
             c == outcomes[i].content
         IN  \/ /\ e.fetch_success
                /\ c.success
                /\ e.text_content = c.text_content
                /\ e.text_length = Len(e.text_content)
                /\ ~EntryHasError(e)
             \/ /\ ~e.fetch_success
                /\ ~c.success
                /\ EntryHasError(e)
                /\ e.error = c.error
                /\ e.text_content = <<>>
                /\ e.text_length = 0

\* a successful entry with a text after a failed one
C7_Witness ==
    /\ Len(fetched_content) = 2
    /\ ~fetched_content[1].fetch_success
    /\ fetched_content[2].fetch_success
    /\ fetched_content[2].text_content # <<>>

\* ------------------------------------------------------------------- C8
IsJsonReport(obj) == "success" \in DOMAIN obj /\ obj.success \in BOOLEAN

\* C8 as stated: a process that ran a mode has written exactly one JSON
\* object with a boolean success field when it exits, however it ends.
C8_OneReportAlways ==
    (pc = "exited" /\ ModeRuns) => (Len(stdout) = 1 /\ IsJsonReport(stdout[1]))

\* C8 amended: a process that ran a mode and was not interrupted has written
\* exactly one JSON object with a boolean success field when it exits; an
\* interrupted one has written none, unless the interrupt came after the
\* result was printed, and never more than one.
C8_OneReportUnlessInterrupted ==
    /\ Len(stdout) <= 1
    /\ \A i \in 1..Len(stdout) : IsJsonReport(stdout[i])
    /\ (pc = "exited" /\ ModeRuns /\ ~interrupted) => Len(stdout) = 1
    /\ (pc = "exited" /\ interrupted /\ Len(stdout) = 1) => stdout[1] = result

\* the error object of an unexpected exception is the one report
C8_Witness ==
    /\ pc = "exited"
    /\ ~interrupted
    /\ result # Unset
    /\ stdout = <<error_result("Object of type bytes is not JSON serializable")>>

\* an interrupted process that wrote nothing
C8_WitnessInterrupted ==
    /\ pc = "exited"
    /\ interrupted
    /\ stdout = <<>>

\* ------------------------------------------------------------------- C9
\* C9: a process that ran a mode exits with 130 when it was interrupted, and
\* otherwise with 0 when the printed object has success = TRUE and with 1
\* when it has not.
C9_ExitCode ==
    (pc = "exited" /\ ModeRuns) =>
        /\ exit_code = 130 <=> interrupted
        /\ ~interrupted =>
             /\ Len(stdout) = 1
             /\ exit_code = 0 <=> stdout[1].success = TRUE
             /\ exit_code = 1 <=> stdout[1].success = FALSE
        /\ exit_code \in {0, 1, 130}

\* a successful report and exit status 0
C9_Witness ==
    /\ pc = "exited"
    /\ exit_code = 0
    /\ stdout = <<result>>
    /\ result.success = TRUE

\* a failure result and exit status 1
C9_WitnessFailure ==
    /\ pc = "exited"
    /\ exit_code = 1
    /\ stdout = <<result>>
    /\ result.success = FALSE

\* ------------------------------------------------------------------ C10
\* C10: on both paths the value of extract_text_from_html is at most
\* max_length + Len(Marker) long; it is exactly that long iff the cleaned
\* text was longer than max_length, and then it is the first max_length
\* characters of the cleaned text followed by the marker; otherwise it is
\* the cleaned text.
C10_LengthBound ==
    (ex_pc = "returned") =>
        LET pre == CleanedText(ex_html, ex_parser)
            out == ex_out.text
        IN  /\ Len(out) <= ex_max_length + Len(Marker)
            /\ Len(out) = ex_max_length + Len(Marker) <=> Len(pre) > ex_max_length
            /\ Len(pre) > ex_max_length =>
                 /\ SubSeq(out, 1, ex_max_length) = SubSeq(pre, 1, ex_max_length)
                 /\ SubSeq(out, ex_max_length + 1, Len(out)) = Marker
            /\ Len(pre) <= ex_max_length => out = pre

\* the parser path cut a text
C10_Witness ==
    /\ ex_pc = "returned"
    /\ ex_parser = "ok"
    /\ Len(CleanedText(ex_html, ex_parser)) > ex_max_length
    /\ Len(ex_out.text) = ex_max_length + Len(Marker)

\* the regex path returned a text of exactly max_length characters
C10_WitnessFallback ==
    /\ ex_pc = "returned"
    /\ ex_parser = "missing"
    /\ Len(CleanedText(ex_html, ex_parser)) = ex_max_length
    /\ ex_out.text = CleanedText(ex_html, ex_parser)


\* ------------------------------------------------------------------ C11
InstallInstruction ==
    "ddgs library not installed. Please install it with: pip install ddgs"

\* C11: every call of ddg_web_search returns a value; when the library is
\* missing the value is a failure with the install instruction, when the
\* client raises on construction, during the query or while the results are
\* formatted it is a failure with that error's message; both carry the
\* query and success = FALSE.
C11_SearchNeverRaises ==
    /\ (~IsFetchMode /\ pc \in TryPcs \ {"dispatch", "search_call"}) =>
         search_event # Unset
    /\ search_event # Unset =>
         /\ search_results # Unset
         /\ "success" \in DOMAIN search_results
         /\ search_event.kind = "raise" =>
              /\ search_results.success = FALSE
              /\ search_results.query = args.query
              /\ IF search_event.exc.stage = "import"
                 THEN search_results.error = InstallInstruction
                 ELSE /\ search_results.error = search_event.exc.msg
                      /\ search_results.error # InstallInstruction

\* the failure of the formatting loop, printed by the search mode
C11_Witness ==
    /\ pc = "printed"
    /\ ~args.fetch_content
    /\ search_event # Unset
    /\ search_event.kind = "raise"
    /\ search_event.exc.stage = "format"
    /\ stdout = <<search_results>>

\* the install instruction, printed by the search mode
C11_WitnessMissing ==
    /\ pc = "printed"
    /\ search_event # Unset
    /\ search_event.kind = "raise"
    /\ search_event.exc.stage = "import"
    /\ stdout = <<search_results>>
    /\ search_results.error = InstallInstruction


\* ------------------------------------------------------------------ C12
\* C12: extract_text_from_html returns a string for every input and every
\* state of the HTML parser (present, missing, raising on the markup); it
\* never ends by raising.
C12_NeverRaises ==
    /\ ex_pc # "raised"
    /\ ex_pc = "returned" => (~ex_out.raised /\ "text" \in DOMAIN ex_out)


\* ------------------------------------------------------------------ C13
\* C13: in search_and_fetch the calls of fetch_url_content are the links of
\* the first min(top_n, K) results, in that order and one call per position,
\* repeated links included; a position is called once whatever its fetch
\* returned, so a returned search_and_fetch made exactly min(top_n, K) calls.
C13_OneAttemptPerPosition ==
    (IsSafMode /\ SearchSucceeded) =>
        LET results == search_results.results
            K == Len(results)
            n == IF args.top_n < K THEN args.top_n ELSE K
        IN  /\ Len(fetch_calls) <= n
            /\ \A i \in 1..Len(fetch_calls) : fetch_calls[i] = results[i].link
            /\ Len(network_calls) <= Len(fetch_calls)
            /\ Len(outcomes) <= Len(fetch_calls)
            /\ Len(fetch_calls) <= Len(outcomes) + 1
            /\ SafReturned => Len(fetch_calls) = n

\* the same link selected twice and fetched twice, the first fetch failing
C13_Witness ==
    /\ SafReturned
    /\ SearchSucceeded
    /\ Len(fetch_calls) = 2
    /\ fetch_calls[1] = fetch_calls[2]
    /\ network_calls = fetch_calls
    /\ ~outcomes[1].content.success


\* ------------------------------------------------------------------ C14
\* C14: in the value of arxiv_get_paper the abstract of every found paper is
\* the summary when that has at most max_length characters, and otherwise
\* its first max_length characters followed by the truncation marker.
C14_AbstractLimited ==
    (ax_pc = "returned" /\ ax_event.kind = "papers") =>
        /\ ax_out.success = TRUE
        /\ \A i \in 1..Len(ax_event.papers) :
             LET sm == ax_event.papers[i].summary
                 ab == ax_out.papers[i].abstract
             IN  /\ Len(ab) <= ax_max_length + Len(ArxivMarker)
                 /\ Len(sm) <= ax_max_length => ab = sm
                 /\ Len(sm) > ax_max_length =>
                      ab = SubSeq(sm, 1, ax_max_length) \o ArxivMarker

====
